---- MODULE Spec2Model ----
(***************************************************************************)
(* A model of the decimal bignum crate: the Digit primitives of            *)
(* src/digit.rs and the Natural operations of src/natural.rs (parse,       *)
(* compare, add, subtract, multiply, divide).                              *)
(*                                                                         *)
(* A Natural is its `digits` vector: a sequence of Digit, least            *)
(* significant first.  Rust index i is TLA+ index i+1.                     *)
(***************************************************************************)
EXTENDS Integers, Sequences, FiniteSets, TLC

(***************************************************************************)
(* Bounds of the model.                                                    *)
(***************************************************************************)
\* add, sub, mul and compare take operands parsed from the decimal texts of 0..MaxVal
MaxVal == 109
\* divide is called on the operands of value at most DivMaxVal
DivMaxVal == 24
\* every text is also taken with up to MaxPad leading '0' characters
MaxPad == 1
\* a borrow scan is followed for at most MaxScan positions past the stored digits
MaxScan == 2
\* the counting loop of divide is followed while its count is at most MaxCount
MaxCount == 30

(***************************************************************************)
(* digit.rs                                                                *)
(***************************************************************************)
Digit == {"Zero", "One", "Two", "Three", "Four", "Five", "Six", "Seven", "Eight", "Nine"}

as_u8(d) ==
    CASE d = "Zero" -> 0
      [] d = "One" -> 1
      [] d = "Two" -> 2
      [] d = "Three" -> 3
      [] d = "Four" -> 4
      [] d = "Five" -> 5
      [] d = "Six" -> 6
      [] d = "Seven" -> 7
      [] d = "Eight" -> 8
      [] d = "Nine" -> 9

\* TryFrom<u8>: Ok(digit) for 0..9, Err("not a digit") otherwise
TryFromU8(v) ==
    CASE v = 0 -> "Zero"
      [] v = 1 -> "One"
      [] v = 2 -> "Two"
      [] v = 3 -> "Three"
      [] v = 4 -> "Four"
      [] v = 5 -> "Five"
      [] v = 6 -> "Six"
      [] v = 7 -> "Seven"
      [] v = 8 -> "Eight"
      [] v = 9 -> "Nine"
      [] OTHER -> "not a digit"

\* TryFrom<char>: Ok(digit) for '0'..'9', Err("not a digit") otherwise
TryFromChar(c) ==
    CASE c = "0" -> "Zero"
      [] c = "1" -> "One"
      [] c = "2" -> "Two"
      [] c = "3" -> "Three"
      [] c = "4" -> "Four"
      [] c = "5" -> "Five"
      [] c = "6" -> "Six"
      [] c = "7" -> "Seven"
      [] c = "8" -> "Eight"
      [] c = "9" -> "Nine"
      [] OTHER -> "not a digit"

\* derive(PartialOrd, Ord) on the enum: the order of the variants' declaration
DigitLt(x, y) == as_u8(x) < as_u8(y)

\* #[derive(Default)] CarrySum: carry false, sum Zero
CarrySumDefault == [carry |-> FALSE, sum |-> "Zero"]

\* add_two with the carry held by the receiver forgotten
add_two_drops_carry(cs, x, y) ==
    LET sum == as_u8(x) + as_u8(y)
    IN  IF sum <= 9
        THEN [carry |-> FALSE, sum |-> TryFromU8(sum)]
        ELSE [carry |-> TRUE, sum |-> TryFromU8(sum - 10)]

add_two(cs, x, y) ==
    LET s0 == as_u8(x) + as_u8(y)
        sum == IF cs.carry THEN s0 + 1 ELSE s0
    IN  IF sum <= 9
        THEN [carry |-> FALSE, sum |-> TryFromU8(sum)]
        ELSE [carry |-> TRUE, sum |-> TryFromU8(sum - 10)]

\* #[derive(Default)] CarryProduct: carry Zero, product Zero
CarryProductDefault == [carry |-> "Zero", product |-> "Zero"]

\* mul_two with the carry held by the receiver forgotten
mul_two_drops_carry(cp, x, y) ==
    LET product == as_u8(x) * as_u8(y)
    IN  IF product <= 9
        THEN [carry |-> "Zero", product |-> TryFromU8(product)]
        ELSE LET remainder == product % 10
                 carry == (product - remainder) \div 10
             IN  [carry |-> TryFromU8(carry), product |-> TryFromU8(remainder)]

\* mul_two with the carry rounded up instead of down
mul_two_rounds_up(cp, x, y) ==
    LET product == as_u8(x) * as_u8(y) + as_u8(cp.carry)
    IN  IF product <= 9
        THEN [carry |-> "Zero", product |-> TryFromU8(product)]
        ELSE LET remainder == product % 10
                 carry == (product + 9) \div 10
             IN  [carry |-> TryFromU8(carry), product |-> TryFromU8(remainder)]

\* `product` of mul_two after `product += self.carry.as_u8()`, in a u8
mul_two_total(cp, x, y) ==
    (((as_u8(x) * as_u8(y)) % 256) + as_u8(cp.carry)) % 256

mul_two(cp, x, y) ==
    LET product == as_u8(x) * as_u8(y) + as_u8(cp.carry)
    IN  IF product <= 9
        THEN [carry |-> "Zero", product |-> TryFromU8(product)]
        ELSE LET remainder == product % 10
                 carry == (product - remainder) \div 10
             IN  [carry |-> TryFromU8(carry), product |-> TryFromU8(remainder)]

\* Digit - Digit (DigitDifference): used by natural.rs, defined in no source file
DigitSub(x, y) ==
    IF as_u8(x) >= as_u8(y)
    THEN [borrow |-> FALSE, difference |-> TryFromU8(as_u8(x) - as_u8(y))]
    ELSE [borrow |-> TRUE, difference |-> TryFromU8(as_u8(x) + 10 - as_u8(y))]

(***************************************************************************)
(* natural.rs: construction, degree, coefficient, compare                  *)
(***************************************************************************)
RECURSIVE FromStrLoop(_, _, _)
FromStrLoop(s, i, digits) ==
    IF i > Len(s) THEN digits
    ELSE LET d == TryFromChar(s[i])
         IN  IF d = "not a digit" THEN "not a digit"
             ELSE FromStrLoop(s, i + 1, <<d>> \o digits)

\* from_str: each character is inserted at index 0, so the last one is digits[0]
from_str(s) ==
    LET digits == FromStrLoop(s, 1, <<>>)
    IN  IF digits = "not a digit" THEN "not a digit"
        ELSE IF Len(digits) = 0 THEN "We cannot have a zero-digit number"
        ELSE digits

zero == from_str(<<"0">>)

one == from_str(<<"1">>)

degree(x) == Len(x) - 1

coefficient(x, power) ==
    IF power > degree(x) THEN "Zero" ELSE x[power + 1]

set_coefficient(x, power, c) == [x EXCEPT ![power + 1] = c]

RECURSIVE CmpLoop(_, _, _)
CmpLoop(x, y, p) ==
    IF p < 0 THEN "Equal"
    ELSE IF DigitLt(coefficient(x, p), coefficient(y, p)) THEN "Less"
    ELSE IF DigitLt(coefficient(y, p), coefficient(x, p)) THEN "Greater"
    ELSE CmpLoop(x, y, p - 1)

partial_cmp(x, y) ==
    IF degree(x) < degree(y) THEN "Less"
    ELSE IF degree(x) > degree(y) THEN "Greater"
    ELSE CmpLoop(x, y, degree(x))

\* the comparison operators Rust derives from partial_cmp, and the derived ==
lt(x, y) == partial_cmp(x, y) = "Less"
gt(x, y) == partial_cmp(x, y) = "Greater"
le(x, y) == partial_cmp(x, y) \in {"Less", "Equal"}
\* >= taken for >
ge_strict(x, y) == partial_cmp(x, y) = "Greater"
ge(x, y) == partial_cmp(x, y) \in {"Greater", "Equal"}
eq(x, y) == x = y

(***************************************************************************)
(* natural.rs: add                                                         *)
(***************************************************************************)
Max(i, j) == IF i >= j THEN i ELSE j

RECURSIVE AddLoop(_, _, _, _, _, _)
AddLoop(x, y, p, n, cs, digits) ==
    IF p >= n
    THEN IF cs.carry THEN Append(digits, "One") ELSE digits
    ELSE LET cs2 == add_two(cs, coefficient(x, p), coefficient(y, p))
         IN  AddLoop(x, y, p + 1, n, cs2, Append(digits, cs2.sum))

add(x, y) ==
    AddLoop(x, y, 0, Max(degree(x), degree(y)) + 1, CarrySumDefault, <<>>)

add_assign(x, y) == add(x, y)

increment(x) == add_assign(x, one)

(***************************************************************************)
(* natural.rs: sub                                                         *)
(***************************************************************************)
\* loop { pp += 1; c = coefficient(pp); if c == Zero { continue } ...; break }
\* Past the stored digits coefficient is Zero at every power, so a scan that
\* is past them never breaks: found is FALSE and pp is the power it has read.
RECURSIVE BorrowScan(_, _)
BorrowScan(x, pp0) ==
    LET pp == pp0 + 1
        c == coefficient(x, pp)
    IN  IF c = "Zero"
        THEN IF pp > degree(x)
             THEN [found |-> FALSE, pp |-> pp]
             ELSE BorrowScan(x, pp)
        ELSE [found |-> TRUE, pp |-> pp]

\* a borrow that leaves the zeros it passed as they are
UnwindNothing(x, ppp, pp) == x

\* for ppp in (p+1)..pp { set_coefficient(ppp, Nine) }
RECURSIVE Unwind(_, _, _)
Unwind(x, ppp, pp) ==
    IF ppp >= pp THEN x
    ELSE Unwind(set_coefficient(x, ppp, "Nine"), ppp + 1, pp)

\* Remove leading zeros
RECURSIVE StripLeadingZeros(_)
StripLeadingZeros(digits) ==
    IF Len(digits) > 1 /\ digits[Len(digits)] = "Zero"
    THEN StripLeadingZeros(SubSeq(digits, 1, Len(digits) - 1))
    ELSE digits

\* The position loop of sub on the working copy x of self.  returned is TRUE
\* with the stripped digits when the loop ends; it is FALSE, with the state of
\* the call, when a borrow scan has left the stored digits.
RECURSIVE SubLoop(_, _, _, _, _)
SubLoop(x, y, p, n, digits) ==
    IF p >= n
    THEN [returned |-> TRUE, digits |-> StripLeadingZeros(digits),
          self |-> x, p |-> p, pp |-> 0]
    ELSE LET ca == coefficient(x, p)
             cb == coefficient(y, p)
             bd == DigitSub(ca, cb)
         IN  IF bd.borrow
             THEN LET sc == BorrowScan(x, p)
                  IN  IF sc.found
                      THEN LET c == coefficient(x, sc.pp)
                               x1 == set_coefficient(x, sc.pp, DigitSub(c, "One").difference)
                               x2 == Unwind(x1, p + 1, sc.pp)
                           IN  SubLoop(x2, y, p + 1, n, Append(digits, bd.difference))
                      ELSE [returned |-> FALSE, digits |-> digits,
                            self |-> x, p |-> p, pp |-> sc.pp]
             ELSE SubLoop(x, y, p + 1, n, Append(digits, DigitSub(ca, cb).difference))

sub(x, y) ==
    SubLoop(x, y, 0, Max(degree(x), degree(y)) + 1, <<>>)

(***************************************************************************)
(* natural.rs: mul                                                         *)
(***************************************************************************)
\* for b in &other.digits { cp = cp.mul_two(*a, *b); digits.push(cp.product) }
RECURSIVE MulRow(_, _, _, _, _)
MulRow(d, y, j, cp, digits) ==
    IF j > Len(y)
    THEN IF cp.carry # "Zero" THEN Append(digits, cp.carry) ELSE digits
    ELSE LET cp2 == mul_two(cp, d, y[j])
         IN  MulRow(d, y, j + 1, cp2, Append(digits, cp2.product))

\* a summand without the i Zero digits that shift it
SummandUnshifted(d, i, y) ==
    MulRow(d, y, 1, CarryProductDefault, <<>>)

\* the summand of digit i of self: i Zero digits, then the row of products
Summand(d, i, y) ==
    MulRow(d, y, 1, CarryProductDefault, [k \in 1..i |-> "Zero"])

RECURSIVE SumSummands(_, _, _, _)
SumSummands(x, y, i, total) ==
    IF i > degree(x) THEN total
    ELSE SumSummands(x, y, i + 1, add(total, Summand(x[i + 1], i, y)))

mul(x, y) == SumSummands(x, y, 0, zero)

(***************************************************************************)
(* Operands: what parse produces from decimal texts                        *)
(***************************************************************************)
DigitChar(v) ==
    CASE v = 0 -> "0" [] v = 1 -> "1" [] v = 2 -> "2" [] v = 3 -> "3" [] v = 4 -> "4"
      [] v = 5 -> "5" [] v = 6 -> "6" [] v = 7 -> "7" [] v = 8 -> "8" [] v = 9 -> "9"

\* the decimal text of v, most significant character first, no leading zero
RECURSIVE DecimalText(_)
DecimalText(v) ==
    IF v < 10 THEN <<DigitChar(v)>>
    ELSE Append(DecimalText(v \div 10), DigitChar(v % 10))

Padded(text, k) == [i \in 1..k |-> "0"] \o text

Texts(m) == {Padded(DecimalText(v), k) : v \in 0..m, k \in 0..MaxPad}

Operands == {from_str(t) : t \in Texts(MaxVal)}

\* the number a digit sequence stands for: the sum of digits[i] * 10^i
RECURSIVE Value(_)
Value(x) ==
    IF Len(x) = 0 THEN 0
    ELSE as_u8(x[1]) + 10 * Value(SubSeq(x, 2, Len(x)))

\* no most-significant zero digit, unless the single digit [0]
Canonical(x) == Len(x) >= 1 /\ (Len(x) = 1 \/ x[Len(x)] # "Zero")

\* the canonical digit sequence of the number v
CanonicalOf(v) == from_str(DecimalText(v))

(***************************************************************************)
(* The state: one call of an operation of Natural                          *)
(***************************************************************************)
VARIABLES
    op,       \* the operation called: "none", "add", "sub", "mul", "div", "cmp"
    a, b,     \* the operands self and other of the call
    pc,       \* "idle", "sub_scan", "div_loop", "done"
    self,     \* sub: the working copy of self that borrows mutate
    p, pp,    \* sub: the position of the loop and of the borrow scan
    n,        \* div: the count n
    product,  \* div: the accumulator product
    outcome,  \* "none", "Natural" (a Natural is returned), "Ordering"
    result,   \* the value returned
    cp,       \* mul_two: the receiver CarryProduct, whose carry is the carry in
    da, db,   \* mul_two: the digits a and b
    total     \* mul_two: `product` before it is reduced, a * b + carry in

vars == <<op, a, b, pc, self, p, pp, n, product, outcome, result, cp, da, db, total>>

\* two operands have been parsed; no operation has been called yet
Init ==
    /\ op = "none"
    /\ a \in Operands
    /\ b \in Operands
    /\ pc = "idle"
    /\ self = <<>>
    /\ p = 0
    /\ pp = 0
    /\ n = <<>>
    /\ product = <<>>
    /\ outcome = "none"
    /\ result = <<>>
    /\ cp = CarryProductDefault
    /\ da = "Zero"
    /\ db = "Zero"
    /\ total = 0

\* a receiver CarryProduct (its fields are pub: any Digit may be in them) and
\* two digits; mul_two has not been called yet
InitMulTwo ==
    /\ op = "none"
    /\ a = zero
    /\ b = zero
    /\ pc = "idle"
    /\ self = <<>>
    /\ p = 0
    /\ pp = 0
    /\ n = <<>>
    /\ product = <<>>
    /\ outcome = "none"
    /\ result = <<>>
    /\ cp \in [carry : Digit, product : Digit]
    /\ da \in Digit
    /\ db \in Digit
    /\ total = 0

\* a sub call that has run as far as it runs without waiting on a borrow scan
SubOutcome(r) ==
    IF r.returned
    THEN /\ pc' = "done"
         /\ outcome' = "Natural"
         /\ result' = r.digits
         /\ self' = r.self
         /\ p' = r.p
         /\ pp' = r.pp
    ELSE /\ pc' = "sub_scan"
         /\ outcome' = "none"
         /\ result' = <<>>
         /\ self' = r.self
         /\ p' = r.p
         /\ pp' = r.pp

CallAdd ==
    /\ pc = "idle"
    /\ op' = "add"
    /\ result' = add(a, b)
    /\ outcome' = "Natural"
    /\ pc' = "done"
    /\ UNCHANGED <<a, b, self, p, pp, n, product, cp, da, db, total>>

CallMul ==
    /\ pc = "idle"
    /\ op' = "mul"
    /\ result' = mul(a, b)
    /\ outcome' = "Natural"
    /\ pc' = "done"
    /\ UNCHANGED <<a, b, self, p, pp, n, product, cp, da, db, total>>

CallCmp ==
    /\ pc = "idle"
    /\ op' = "cmp"
    /\ result' = partial_cmp(a, b)
    /\ outcome' = "Ordering"
    /\ pc' = "done"
    /\ UNCHANGED <<a, b, self, p, pp, n, product, cp, da, db, total>>

CallSub ==
    /\ pc = "idle"
    /\ op' = "sub"
    /\ SubOutcome(sub(a, b))
    /\ UNCHANGED <<a, b, n, product, cp, da, db, total>>

\* one more turn of a borrow scan that has left the stored digits:
\* pp += 1, the coefficient there is Zero, continue.  pp is a usize, so the
\* code takes some 2^64 such turns; the model follows MaxScan of them.
SubScan ==
    /\ pc = "sub_scan"
    /\ pp < degree(self) + 1 + MaxScan
    /\ coefficient(self, pp + 1) = "Zero"
    /\ pp' = pp + 1
    /\ UNCHANGED <<op, a, b, pc, self, p, n, product, outcome, result, cp, da, db, total>>

\* div up to the first test of its loop: n = one(), product = other.clone()
CallDiv ==
    /\ pc = "idle"
    /\ Value(a) <= DivMaxVal
    /\ Value(b) <= DivMaxVal
    /\ op' = "div"
    /\ n' = one
    /\ product' = b
    /\ pc' = "div_loop"
    /\ UNCHANGED <<a, b, self, p, pp, outcome, result, cp, da, db, total>>

\* the test of `while self >= product` and, on true, one turn of the body
DivTurn ==
    /\ pc = "div_loop"
    /\ ge(a, product)
    /\ Value(n) <= MaxCount
    /\ n' = increment(n)
    /\ product' = add_assign(product, b)
    /\ UNCHANGED <<op, a, b, pc, self, p, pp, outcome, result, cp, da, db, total>>

\* the test fails: n - Natural::one() is returned
DivExit ==
    /\ pc = "div_loop"
    /\ ~ge(a, product)
    /\ SubOutcome(sub(n, one))
    /\ UNCHANGED <<op, a, b, n, product, cp, da, db, total>>

CallMulTwo ==
    /\ pc = "idle"
    /\ op' = "mul_two"
    /\ total' = mul_two_total(cp, da, db)
    /\ result' = mul_two(cp, da, db)
    /\ outcome' = "CarryProduct"
    /\ pc' = "done"
    /\ UNCHANGED <<a, b, self, p, pp, n, product, cp, da, db>>

NextSub ==
    \/ CallSub
    \/ SubScan

NextDiv ==
    \/ CallDiv
    \/ DivTurn
    \/ DivExit

Next ==
    \/ CallAdd
    \/ CallMul
    \/ CallCmp
    \/ CallMulTwo
    \/ NextSub
    \/ NextDiv

\* any operation on the parsed operands
Spec == Init /\ [][Next]_vars

\* one operation on the parsed operands
SpecAdd == Init /\ [][CallAdd]_vars
SpecMul == Init /\ [][CallMul]_vars
SpecCmp == Init /\ [][CallCmp]_vars
SpecSub == Init /\ [][NextSub]_vars
SpecDiv == Init /\ [][NextDiv]_vars

\* one call of mul_two on any receiver and any two digits
SpecMulTwo == InitMulTwo /\ [][CallMulTwo]_vars

(***************************************************************************)
(* Properties                                                              *)
(***************************************************************************)
RECURSIVE Pow10(_)
Pow10(k) == IF k = 0 THEN 1 ELSE 10 * Pow10(k - 1)

\* C1: add(a,b) returns digits whose value is value(a)+value(b); with
\* n = max(degree(a),degree(b))+1 the result has n digits, or n+1 digits with
\* top digit One exactly when the carry out of position n-1 is set.
C1_AddValueAndLength ==
    (op = "add" /\ pc = "done") =>
        LET nn == Max(degree(a), degree(b)) + 1
            carryOut == Value(a) + Value(b) >= Pow10(nn)
        IN  /\ outcome = "Natural"
            /\ Value(result) = Value(a) + Value(b)
            /\ carryOut => (Len(result) = nn + 1 /\ result[nn + 1] = "One")
            /\ ~carryOut => Len(result) = nn

\* an add whose final carry appended One, one operand stored with a leading zero
C1_Witness ==
    /\ op = "add"
    /\ pc = "done"
    /\ Len(result) = Max(degree(a), degree(b)) + 2
    /\ Len(a) > 1
    /\ a[Len(a)] = "Zero"

\* C2: multiply(a,b) returns digits whose value is value(a)*value(b): the
\* summand of digit i of a is worth that digit times b times 10^i, and the
\* result is the sum of the summands.
C2_MulValue ==
    (op = "mul" /\ pc = "done") =>
        /\ outcome = "Natural"
        /\ \A i \in 0..degree(a) :
              Value(Summand(a[i + 1], i, b)) = as_u8(a[i + 1]) * Value(b) * Pow10(i)
        /\ Value(result) = Value(a) * Value(b)

\* a product of two operands of several digits where a row ends in a carry
C2_Witness ==
    /\ op = "mul"
    /\ pc = "done"
    /\ Len(a) > 1
    /\ Len(b) > 1
    /\ \E i \in 0..degree(a) : Len(Summand(a[i + 1], i, b)) = i + Len(b) + 1
    /\ Value(result) > 9999

\* C3: with value(a) >= value(b), subtract(a,b) returns (no borrow scan leaves
\* the stored digits of a) the canonical digits of value(a)-value(b).
C3_SubCanonicalDifference ==
    (op = "sub" /\ Value(a) >= Value(b)) =>
        /\ pc = "done"
        /\ outcome = "Natural"
        /\ Canonical(result)
        /\ result = CanonicalOf(Value(a) - Value(b))

\* a subtraction whose borrow rippled through a zero (now Nine in the working
\* copy) and whose result lost most-significant zeros
C3_Witness ==
    /\ op = "sub"
    /\ pc = "done"
    /\ Value(a) >= Value(b)
    /\ \E i \in 1..Len(a) : a[i] = "Zero" /\ self[i] = "Nine"
    /\ Len(result) < Len(a)

\* C4: for canonical a and b with b # zero(), divide(a,b) ends (its count never
\* passes the quotient plus one, and product is count times b) and returns the
\* canonical digits of floor(value(a)/value(b)).
C4_DivQuotient ==
    (op = "div" /\ Canonical(a) /\ Canonical(b) /\ b # zero) =>
        LET q == Value(a) \div Value(b)
        IN  /\ pc \in {"div_loop", "done"}
            /\ pc = "div_loop" =>
                  /\ Value(n) <= q + 1
                  /\ Value(n) <= MaxCount
                  /\ Value(product) = Value(n) * Value(b)
                  /\ Canonical(product)
            /\ pc = "done" =>
                  /\ outcome = "Natural"
                  /\ result = CanonicalOf(q)

\* a division of canonical operands that returned a quotient of two digits
C4_Witness ==
    /\ op = "div"
    /\ pc = "done"
    /\ Canonical(a)
    /\ Canonical(b)
    /\ b # zero
    /\ Len(result) = 2

\* a division of canonical operands with value(a) < value(b) that returned zero()
C4_WitnessZero ==
    /\ op = "div"
    /\ pc = "done"
    /\ Canonical(a)
    /\ Canonical(b)
    /\ Value(a) < Value(b)
    /\ result = zero

\* C5: for a and b parsed from decimal strings without leading zeros, b # zero():
\* multiply(divide(a,b), b) <= a and a < multiply(add(divide(a,b), one()), b),
\* in the ordering of Natural.
C5_DivMulRelation ==
    (op = "div" /\ pc = "done" /\ Canonical(a) /\ Canonical(b) /\ b # zero) =>
        /\ le(mul(result, b), a)
        /\ lt(a, mul(add(result, one), b))

\* C6: of a<b, a==b, a>b exactly one holds, and it is the one the values
\* value(a) and value(b) give.
C6_OrderingAgreesWithValue ==
    (op = "cmp" /\ pc = "done") =>
        /\ (lt(a, b) /\ ~eq(a, b) /\ ~gt(a, b))
             \/ (~lt(a, b) /\ eq(a, b) /\ ~gt(a, b))
             \/ (~lt(a, b) /\ ~eq(a, b) /\ gt(a, b))
        /\ lt(a, b) <=> Value(a) < Value(b)
        /\ eq(a, b) <=> Value(a) = Value(b)
        /\ gt(a, b) <=> Value(a) > Value(b)
        /\ result = "Less" <=> Value(a) < Value(b)

\* C7: with value(a) < value(b), subtract(a,b) ends with the error Underflow:
\* the borrow scan that finds no non-zero digit stops at the end of the stored
\* digits of a (it reads no power past the first one that follows them and
\* the position p), and no Natural is returned.
C7_SubUnderflow ==
    (op = "sub" /\ Value(a) < Value(b)) =>
        /\ pc = "sub_scan" => pp <= Max(degree(self), p) + 1
        /\ pc = "done" => outcome = "Underflow"

\* C8: divide(a, zero()) ends with the error DivisionByZero: with a zero
\* divisor the counting loop takes no turn.
C8_DivByZero ==
    (op = "div" /\ b = zero) =>
        /\ pc = "div_loop" => n = one
        /\ pc = "done" => outcome = "DivisionByZero"

\* C9: for canonical a and b (zero() included), multiply(a,b) is canonical.
C9_MulCanonical ==
    (op = "mul" /\ pc = "done" /\ Canonical(a) /\ Canonical(b)) =>
        Canonical(result)

\* C10: multiply(a,b) and multiply(b,a) are the same digit sequence, for any
\* stored operands (leading zero digits allowed).
C10_MulCommutes ==
    (op = "mul" /\ pc = "done") =>
        LET swapped == mul(b, a)
        IN  /\ eq(result, swapped)
            /\ Len(result) = Len(swapped)
            /\ \A i \in 1..Len(result) : result[i] = swapped[i]

\* a product of operands of different stored lengths, one with a leading zero
C10_Witness ==
    /\ op = "mul"
    /\ pc = "done"
    /\ Len(a) # Len(b)
    /\ a # b
    /\ Len(b) > 1
    /\ b[Len(b)] = "Zero"
    /\ Value(result) > 0

\* C11 as claimed: for every Digit a, every Digit b and every carry in held in
\* the receiver, the total a*b + carry in of mul_two is in [0, 89] and the
\* returned carry is less than 9.
C11_MulTwoRangeAnyCarry ==
    (op = "mul_two" /\ pc = "done") =>
        /\ total \in 0..89
        /\ DigitLt(result.carry, "Nine")

\* C11 as amended: for every Digit a and b and every carry in less than 9 (the
\* default Zero and every carry mul_two returns from such a receiver), the
\* total is a*b + carry in, it is in [0, 89], the returned carry is total / 10
\* and less than 9, and the returned product is total mod 10.
C11_MulTwoRange ==
    (op = "mul_two" /\ pc = "done" /\ DigitLt(cp.carry, "Nine")) =>
        /\ total = as_u8(da) * as_u8(db) + as_u8(cp.carry)
        /\ total \in 0..89
        /\ result.carry \in Digit
        /\ result.product \in Digit
        /\ DigitLt(result.carry, "Nine")
        /\ as_u8(result.carry) = total \div 10
        /\ as_u8(result.product) = total % 10

\* mul_two of Nine and Nine on a receiver whose carry is Eight: the total 89
C11_Witness ==
    /\ op = "mul_two"
    /\ pc = "done"
    /\ cp.carry = "Eight"
    /\ total = 89
    /\ result = [carry |-> "Eight", product |-> "Nine"]

====
